---- MODULE Spec2Model ----
(***************************************************************************)
(* Model of main_app.py of rag-chat: the RAGOrchestrator request pipeline  *)
(* (embedding -> Qdrant search -> LLM answer -> formatting), the Gradio    *)
(* wiring that stores the returned tuple in the UI components, and the     *)
(* answer-row selection handler show_source_details_from_state.            *)
(*                                                                         *)
(* Python strings that are compared or sorted (questions, file names) are  *)
(* sequences of code points; fixed messages are TLA+ strings.  A Python    *)
(* value of unknown type is a record [t, v]: t is the Python type, v the   *)
(* list content when t = "list".                                           *)
(***************************************************************************)
EXTENDS Integers, Sequences, FiniteSets, TLC

\* ---------------------------------------------------------------- bounds
MaxResults == 2
MaxAnswer == 2
SEARCH_LIMIT == 5

Min(a, b) == IF a < b THEN a ELSE b

SeqsUpTo(S, n) == UNION {[1..k -> S] : k \in 0..n}

\* ------------------------------------------------------- input domains
\* "", " ", " a"
Questions == {<<>>, <<32>>, <<32, 97>>}


\* a record returned by the index: payload['text'], payload['source_file'];
\* two of them are chunks of the same file.  The files are "a", "ab", "b":
\* their order by length differs from the lexicographic one
Payloads ==
    { [text |-> "t1", source_file |-> <<97>>],
      [text |-> "t2", source_file |-> <<97>>],
      [text |-> "t1", source_file |-> <<97, 98>>],
      [text |-> "t2", source_file |-> <<98>>] }
ResultLists == SeqsUpTo(Payloads, Min(MaxResults, SEARCH_LIMIT))

\* what qdrant_client.search does: it returns a list or it raises
SearchResponses ==
    {[raised |-> TRUE, results |-> <<>>, called |-> TRUE]}
    \cup {[raised |-> FALSE, results |-> rs, called |-> TRUE] : rs \in ResultLists}

\* paragraph records of the answer service; 'paragraph' and 'source' are
\* keys a record may lack
Items ==
    { [has_paragraph |-> TRUE, paragraph |-> "p1", has_source |-> TRUE,
       file |-> "f.pdf", text |-> "s1"],
      [has_paragraph |-> TRUE, paragraph |-> "p2", has_source |-> FALSE,
       file |-> "", text |-> ""],
      [has_paragraph |-> FALSE, paragraph |-> "", has_source |-> TRUE,
       file |-> "f.pdf", text |-> "s1"] }
AnswerLists == SeqsUpTo(Items, MaxAnswer)

PyNone == [t |-> "none", v |-> <<>>]
PyList(xs) == [t |-> "list", v |-> xs]
PyStr == [t |-> "str", v |-> <<>>]

\* the kinds of HTTP exchange requests.post can end in
FailKinds == {"network_error", "timeout", "http_error", "invalid_json",
              "json_not_object", "missing_key"}
Resp(kind, value) == [kind |-> kind, value |-> value]
\* no call made yet
NoResp == Resp("none", PyNone)
NoSearch == [raised |-> FALSE, results |-> <<>>, called |-> FALSE]

\* the embedding service: a vector, an empty vector, or a failing exchange
EmbeddingResponses ==
    {Resp(k, PyNone) : k \in FailKinds}
    \cup {Resp("ok", PyList(<<1>>)), Resp("ok", PyList(<<>>)), Resp("ok", PyNone)}

\* the answer service: a list of records, something that is not a list, or
\* a failing exchange
AnswerResponses ==
    {Resp(k, PyNone) : k \in FailKinds}
    \cup {Resp("ok", PyList(a)) : a \in AnswerLists}
    \cup {Resp("ok", PyStr), Resp("ok", PyNone)}

\* ------------------------------------------------------ Python helpers
\* truth value of a str or list
Truthy(s) == Len(s) > 0
\* truth value of a value of any of the modelled types
TruthyValue(x) == x.t = "list" /\ Len(x.v) > 0

\* str.__lt__: code point by code point, a proper prefix is smaller
RECURSIVE StrLess(_, _)
StrLess(a, b) ==
    IF a = <<>> THEN b # <<>>
    ELSE IF b = <<>> THEN FALSE
    ELSE IF Head(a) < Head(b) THEN TRUE
    ELSE IF Head(a) > Head(b) THEN FALSE
    ELSE StrLess(Tail(a), Tail(b))

\* set(xs)
set(xs) == {xs[i] : i \in DOMAIN xs}

\* list(S): the elements in an order the code does not control
RECURSIVE list(_)
list(S) ==
    IF S = {} THEN <<>>
    ELSE LET x == CHOOSE y \in S : TRUE IN <<x>> \o list(S \ {x})

\* insertion of x into the ascending list s, after its equals
RECURSIVE Insert(_, _)
Insert(x, s) ==
    IF s = <<>> THEN <<x>>
    ELSE IF StrLess(x, Head(s)) THEN <<x>> \o s
    ELSE <<Head(s)>> \o Insert(x, Tail(s))

\* sorted(xs) of a list of str
RECURSIVE sorted(_)
sorted(xs) ==
    IF xs = <<>> THEN <<>>
    ELSE Insert(xs[Len(xs)], sorted(SubSeq(xs, 1, Len(xs) - 1)))

\* ------------------------------------------------------------ the state
VARIABLES
    pc,                  \* where process_query_for_gradio is: "idle" (no
                         \* request running), "embed", "search", "answer"
    question,            \* the argument of the running / last request
    calls,               \* the remote clients invoked by that request, in order
    question_embedding,  \* local of process_query_for_gradio
    search_results,      \* local of _search_and_prepare_context
    context_chunks,      \* local of process_query_for_gradio
    sources,             \* local of process_query_for_gradio
    llm_context,         \* the context argument passed to query_llm
    structured_answer,   \* local of process_query_for_gradio
    outcome,             \* which return statement ended the request, "raised"
                         \* when an exception left it, "none" while it runs
    raised_by,           \* the call that raised, "none" if none did
    embed_resp,          \* the HTTP exchange the embedding call ended in
    search_resp,         \* what qdrant_client.search did
    answer_resp,         \* the HTTP exchange the answer call ended in
    answer_box,          \* gr.Dataset samples of the answer
    sources_box,         \* gr.Dataset samples of the sources
    full_response_state, \* gr.State
    source_details_box   \* gr.Markdown

locals == <<question, calls, question_embedding, search_results,
            context_chunks, sources, llm_context, structured_answer,
            raised_by, embed_resp, search_resp, answer_resp>>
ui == <<answer_box, sources_box, full_response_state, source_details_box>>
vars == <<pc, outcome, locals, ui>>

\* ------------------------------------------------- RAGOrchestrator
Returned(value) == [raised |-> FALSE, value |-> value]
Raised == [raised |-> TRUE, value |-> PyNone]

\* _make_api_request: only requests.exceptions.RequestException is caught.
\* Connection errors, timeouts, the HTTPError of raise_for_status and the
\* JSONDecodeError of Response.json() (requests 2.27 and later) are such;
\* the AttributeError of .get on a JSON value that is no object is not.
make_api_request(response_key, resp) ==
    LET sentinel == IF response_key = "embedding" THEN PyNone ELSE PyList(<<>>)
    IN  CASE resp.kind \in {"network_error", "timeout", "http_error"} ->
                Returned(sentinel)
          [] resp.kind = "invalid_json" -> Returned(sentinel)
          [] resp.kind = "json_not_object" -> Raised
          [] resp.kind = "missing_key" -> Returned(PyNone)
          [] OTHER -> Returned(resp.value)

get_embedding(resp) == make_api_request("embedding", resp)

query_llm(resp) ==
    LET result == make_api_request("answer", resp)
    IN  IF result.raised THEN Raised
        ELSE IF result.value.t = "list" THEN Returned(result.value)
        ELSE Returned(PyList(<<>>))

\* _search_and_prepare_context with the source files taken as they come
search_and_prepare_context_unsorted(response) ==
    IF response.raised
    THEN [raised |-> TRUE, context_chunks |-> <<>>, sources |-> <<>>]
    ELSE [raised |-> FALSE,
          context_chunks |->
              [i \in DOMAIN response.results |->
                  [text |-> response.results[i].text,
                   file |-> response.results[i].source_file]],
          sources |-> [i \in DOMAIN response.results |->
                          response.results[i].source_file]]

\* _search_and_prepare_context
search_and_prepare_context(response) ==
    IF response.raised
    THEN [raised |-> TRUE, context_chunks |-> <<>>, sources |-> <<>>]
    ELSE IF ~Truthy(response.results)
    THEN [raised |-> FALSE, context_chunks |-> <<>>, sources |-> <<>>]
    ELSE [raised |-> FALSE,
          context_chunks |->
              [i \in DOMAIN response.results |->
                  [text |-> response.results[i].text,
                   file |-> response.results[i].source_file]],
          sources |->
              sorted(list(set([i \in DOMAIN response.results |->
                                  response.results[i].source_file])))]

\* the conditions of the three early returns of process_query_for_gradio
\* the entry check left out
QuestionMissing_unchecked(q) == FALSE
QuestionMissing(q) == ~Truthy(q)
\* the embedding check left out
EmbeddingMissing_unchecked(e) == FALSE
EmbeddingMissing(e) == ~TruthyValue(e)
\* the context check left out
ContextMissing_unchecked(chunks) == FALSE
ContextMissing(chunks) == ~Truthy(chunks)
AnswerMissing(answer) == ~Truthy(answer)

\* [[source] for source in sources]
sources_data(srcs) == [i \in DOMAIN srcs |-> <<srcs[i]>>]

\* the rows built in reverse
answer_data_reversed(answer) ==
    IF \E i \in DOMAIN answer : ~answer[i].has_paragraph
    THEN [raised |-> TRUE, value |-> <<>>]
    ELSE [raised |-> FALSE,
          value |-> [i \in DOMAIN answer |->
                        <<answer[Len(answer) + 1 - i].paragraph>>]]

\* [[item['paragraph']] for item in structured_answer]; KeyError when an
\* item has no 'paragraph'
answer_data(answer) ==
    IF \E i \in DOMAIN answer : ~answer[i].has_paragraph
    THEN [raised |-> TRUE, value |-> <<>>]
    ELSE [raised |-> FALSE,
          value |-> [i \in DOMAIN answer |-> <<answer[i].paragraph>>]]

Details(kind) == [kind |-> kind, file |-> "", text |-> ""]

\* show_source_details_from_state; index is <<>> for evt.index = None and
\* <<row>> otherwise
show_source_details_from_state(state_data, index) ==
    IF ~Truthy(state_data) \/ index = <<>> THEN Details("source_not_found")
    ELSE IF index[1] >= Len(state_data) THEN Details("index_error")
    ELSE LET selected_item == state_data[index[1] + 1]
         IN  [kind |-> "source",
              file |-> IF selected_item.has_source
                       THEN selected_item.file ELSE "N/A",
              text |-> IF selected_item.has_source
                       THEN selected_item.text ELSE "N/A"]

\* ------------------------------------------------------------- actions
\* submit_btn.click: the returned tuple is written to the components
Return(kind, answer, srcs, state, details) ==
    /\ pc' = "idle"
    /\ outcome' = kind
    /\ answer_box' = answer
    /\ sources_box' = srcs
    /\ full_response_state' = state
    /\ source_details_box' = details

\* an exception leaves process_query_for_gradio: no component is updated
Raise(stage) ==
    /\ pc' = "idle"
    /\ outcome' = "raised"
    /\ raised_by' = stage
    /\ UNCHANGED ui

Init ==
    /\ pc = "idle"
    /\ outcome = "none"
    /\ question = <<>>
    /\ calls = <<>>
    /\ question_embedding = PyNone
    /\ search_results = <<>>
    /\ context_chunks = <<>>
    /\ sources = <<>>
    /\ llm_context = <<>>
    /\ structured_answer = <<>>
    /\ raised_by = "none"
    /\ embed_resp = NoResp
    /\ search_resp = NoSearch
    /\ answer_resp = NoResp
    /\ answer_box = << <<"...">> >>
    /\ sources_box = << << <<46, 46, 46>> >> >>
    /\ full_response_state = <<>>
    /\ source_details_box = Details("select_paragraph_above")

\* process_query_for_gradio up to the call of get_embedding
Submit(q) ==
    /\ pc = "idle"
    /\ question' = q
    /\ question_embedding' = PyNone
    /\ search_results' = <<>>
    /\ context_chunks' = <<>>
    /\ sources' = <<>>
    /\ llm_context' = <<>>
    /\ structured_answer' = <<>>
    /\ raised_by' = "none"
    /\ embed_resp' = NoResp
    /\ search_resp' = NoSearch
    /\ answer_resp' = NoResp
    /\ IF QuestionMissing(q)
       THEN /\ calls' = <<>>
            /\ Return("enter_question", <<>>, << << <<>> >> >>, <<>>,
                      Details("enter_question"))
       ELSE /\ calls' = <<"embedding">>
            /\ pc' = "embed"
            /\ outcome' = "none"
            /\ UNCHANGED ui

\* get_embedding returns or raises; up to the call of qdrant_client.search
EmbedDone(resp) ==
    /\ pc = "embed"
    /\ embed_resp' = resp
    /\ LET r == get_embedding(resp)
       IN  IF r.raised
           THEN /\ Raise("embedding")
                /\ UNCHANGED <<question_embedding, calls>>
           ELSE /\ question_embedding' = r.value
                /\ UNCHANGED raised_by
                /\ IF EmbeddingMissing(r.value)
                   THEN /\ Return("vectorize_error",
                                  << <<"error_no_vector">> >>,
                                  << << <<>> >> >>, <<>>, Details("error"))
                        /\ UNCHANGED calls
                   ELSE /\ calls' = Append(calls, "search")
                        /\ pc' = "search"
                        /\ UNCHANGED <<outcome, ui>>
    /\ UNCHANGED <<question, search_results, context_chunks, sources,
                   llm_context, structured_answer, search_resp, answer_resp>>

\* _search_and_prepare_context returns or raises; up to the call of query_llm
SearchDone(response) ==
    /\ pc = "search"
    /\ search_resp' = response
    /\ LET r == search_and_prepare_context(response)
       IN  IF r.raised
           THEN /\ Raise("search")
                /\ UNCHANGED <<search_results, context_chunks, sources,
                               llm_context, calls>>
           ELSE /\ search_results' = response.results
                /\ UNCHANGED raised_by
                /\ context_chunks' = r.context_chunks
                /\ sources' = r.sources
                /\ IF ContextMissing(r.context_chunks)
                   THEN /\ Return("no_context", << <<"error_no_context">> >>,
                                  sources_data(r.sources), <<>>,
                                  Details("no_context"))
                        /\ UNCHANGED <<llm_context, calls>>
                   ELSE /\ calls' = Append(calls, "answer")
                        /\ llm_context' = r.context_chunks
                        /\ pc' = "answer"
                        /\ UNCHANGED <<outcome, ui>>
    /\ UNCHANGED <<question, question_embedding, structured_answer,
                   embed_resp, answer_resp>>

\* query_llm returns or raises; formatting and the final return
AnswerDone(resp) ==
    /\ pc = "answer"
    /\ answer_resp' = resp
    /\ LET r == query_llm(resp)
       IN  IF r.raised
           THEN /\ Raise("answer")
                /\ UNCHANGED structured_answer
           ELSE /\ structured_answer' = r.value.v
                /\ UNCHANGED raised_by
                /\ IF AnswerMissing(r.value.v)
                   THEN Return("llm_error", << <<"error_llm">> >>,
                               sources_data(sources), <<>>, Details("error"))
                   ELSE LET rows == answer_data(r.value.v)
                        IN  IF rows.raised
                            THEN Return("format_error",
                                        << <<"error_format">> >>,
                                        sources_data(sources), <<>>,
                                        Details("error_format"))
                            ELSE Return("success", rows.value,
                                        sources_data(sources), r.value.v,
                                        Details("select_paragraph"))
    /\ UNCHANGED <<question, calls, question_embedding, search_results,
                   context_chunks, sources, llm_context, embed_resp,
                   search_resp>>

\* answer_box.select: a displayed row is clicked (or the event has no index)
Select(index) ==
    /\ source_details_box' =
           show_source_details_from_state(full_response_state, index)
    /\ UNCHANGED <<pc, outcome, locals, answer_box, sources_box,
                   full_response_state>>

Next ==
    \/ \E q \in Questions : Submit(q)
    \/ \E resp \in EmbeddingResponses : EmbedDone(resp)
    \/ \E response \in SearchResponses : SearchDone(response)
    \/ \E resp \in AnswerResponses : AnswerDone(resp)
    \/ \E index \in {<<>>} \cup {<<i>> : i \in 0..(Len(answer_box) - 1)} :
           Select(index)

Spec == Init /\ [][Next]_vars

TypeOK ==
    /\ pc \in {"idle", "embed", "search", "answer"}
    /\ outcome \in {"none", "raised", "enter_question", "vectorize_error",
                    "no_context", "llm_error", "format_error", "success"}
    /\ question \in Questions

\* ------------------------------------------------------------ properties
\* a request has been submitted (the locals describe it)
Requested == pc # "idle" \/ outcome # "none"

TerminalOutcomes == {"enter_question", "vectorize_error", "no_context",
                     "llm_error", "format_error", "success"}

\* str.isspace() or empty
WhitespaceOnly(q) == \A i \in DOMAIN q : q[i] = 32

Called(client) == \E i \in DOMAIN calls : calls[i] = client

\* C1 as stated: an empty or whitespace-only question ends in the
\* 'enter a question' outcome and no remote client is invoked.
C1_Original ==
    (Requested /\ WhitespaceOnly(question)) =>
        (pc = "idle" /\ outcome = "enter_question" /\ calls = <<>>)

\* C1 amended: an empty question ends in the 'enter a question' outcome with
\* no remote client invoked; any other question, whitespace-only ones
\* included, is passed to the embedding client.
C1_EmptyQuestion ==
    /\ (Requested /\ question = <<>>) =>
           (pc = "idle" /\ outcome = "enter_question" /\ calls = <<>>)
    /\ (Requested /\ question # <<>>) =>
           (outcome # "enter_question" /\ calls # <<>>
            /\ calls[1] = "embedding")

C1_Witness ==
    question = <<>> /\ outcome = "enter_question" /\ calls = <<>>
    /\ answer_box = <<>>

\* the embedding client has returned (it did not raise)
EmbeddingReturned == embed_resp # NoResp /\ raised_by # "embedding"

\* C2: when the embedding client returns no vector for a non-empty question
\* the request ends in the 'could not vectorize' outcome and neither the
\* index search nor the answer client is invoked.
C2_NoVector ==
    (EmbeddingReturned /\ question_embedding \in {PyNone, PyList(<<>>)}) =>
        /\ pc = "idle"
        /\ outcome = "vectorize_error"
        /\ calls = <<"embedding">>
        /\ question # <<>>

C2_Witness ==
    outcome = "vectorize_error" /\ embed_resp.kind = "timeout"
    /\ question_embedding = PyNone /\ calls = <<"embedding">>

\* the index search has returned (it did not raise)
SearchReturned == search_resp.called /\ ~search_resp.raised

\* C3: when the index search returns zero chunks the request ends in the
\* 'no relevant context' outcome without the answer client being invoked;
\* the answer client is only ever invoked with a non-empty chunk list.
C3_NoContext ==
    /\ (SearchReturned /\ search_resp.results = <<>>) =>
           (pc = "idle" /\ outcome = "no_context" /\ ~Called("answer"))
    /\ Called("answer") => llm_context # <<>>

C3_Witness ==
    outcome = "no_context" /\ SearchReturned /\ search_resp.results = <<>>
    /\ calls = <<"embedding", "search">>

\* the source_file values of a list of index results
FilesOf(results) == {results[i].source_file : i \in DOMAIN results}

\* C4: for a non-empty list of index results the source list is the
\* strictly ascending list of the distinct source_file values, the same for
\* every list with the same files (reordered, with duplicates), it is what
\* the request returns, and the chunk list keeps every result in order.
C4_Sources ==
    (SearchReturned /\ search_resp.results # <<>>) =>
        LET results == search_resp.results
        IN  /\ \A i \in 1..(Len(sources) - 1) :
                   StrLess(sources[i], sources[i + 1])
            /\ set(sources) = FilesOf(results)
            /\ \A other \in ResultLists :
                   FilesOf(other) = FilesOf(results) =>
                       search_and_prepare_context(
                           [raised |-> FALSE, results |-> other,
                            called |-> TRUE]).sources = sources
            /\ Len(context_chunks) = Len(results)
            /\ \A i \in DOMAIN results :
                   /\ context_chunks[i].text = results[i].text
                   /\ context_chunks[i].file = results[i].source_file
            /\ outcome \in TerminalOutcomes =>
                   /\ Len(sources_box) = Len(sources)
                   /\ \A i \in DOMAIN sources :
                          sources_box[i] = <<sources[i]>>

C4_Witness ==
    /\ outcome = "success"
    /\ Len(search_resp.results) = 2
    /\ search_resp.results[1].source_file = <<98>>
    /\ search_resp.results[2].source_file = <<97, 98>>
    /\ sources_box = << << <<97, 98>> >>, << <<98>> >> >>

\* C5: on success the displayed rows are the paragraphs of the answer
\* client's records, one per record and in their order, and the stored
\* structured answer is the answer client's list.
C5_Paragraphs ==
    outcome = "success" =>
        LET answer == answer_resp.value.v
        IN  /\ answer_resp.kind = "ok" /\ answer_resp.value.t = "list"
            /\ Len(answer_box) = Len(answer)
            /\ \A i \in DOMAIN answer :
                   answer_box[i] = <<answer[i].paragraph>>
            /\ full_response_state = answer

C5_Witness ==
    /\ outcome = "success"
    /\ Len(full_response_state) = 2
    /\ answer_box = << <<"p2">>, <<"p1">> >>

\* C6: in every terminal outcome the source entries returned are source
\* files of the chunks sent to the answer client in that request, and the
\* source list is empty when no chunks were sent.
C6_SourcesSubset ==
    outcome \in TerminalOutcomes =>
        /\ {sources_box[i][1] : i \in DOMAIN sources_box}
               \subseteq {llm_context[i].file : i \in DOMAIN llm_context}
        /\ ~Called("answer") => sources_box = <<>>

\* C7: a failing index search gives an empty chunk list and the 'no relevant
\* context' outcome, nothing is raised out of the request and the answer
\* client is not invoked.
C7_SearchFailure ==
    (search_resp.called /\ search_resp.raised) =>
        /\ pc = "idle"
        /\ outcome = "no_context"
        /\ context_chunks = <<>>
        /\ ~Called("answer")

\* an answer exchange whose 'answer' is not a list or is an empty list
BadAnswer(resp) ==
    resp.kind = "ok" /\ (resp.value.t # "list" \/ resp.value.v = <<>>)

\* C8: every failing response kind of the embedding and of the answer
\* service becomes the client's sentinel, no exception leaves the client, and
\* the request ends in the outcome of a transport failure of that stage.
C8_FailureKinds ==
    /\ embed_resp.kind \in FailKinds =>
           (pc = "idle" /\ outcome = "vectorize_error"
            /\ question_embedding = PyNone)
    /\ (answer_resp.kind \in FailKinds \/ BadAnswer(answer_resp)) =>
           (pc = "idle" /\ outcome = "llm_error" /\ structured_answer = <<>>)

\* C9: the remote calls of a request are embedding, search, answer in that
\* order and at most once each, a call is made only after the one before
\* gave a usable result, no call follows a failing or empty stage, and the
\* finished request has exactly one terminal outcome.
C9_Sequential ==
    /\ \E n \in 0..3 : calls = SubSeq(<<"embedding", "search", "answer">>, 1, n)
    /\ Called("search") => TruthyValue(question_embedding)
    /\ Called("answer") => context_chunks # <<>>
    /\ (embed_resp # NoResp /\ ~TruthyValue(question_embedding)) =>
           ~Called("search")
    /\ (search_resp.called /\ context_chunks = <<>>) => ~Called("answer")
    /\ (Requested /\ pc = "idle") => outcome \in TerminalOutcomes

\* C10: after every request full_response_state is the structured answer of
\* that request if it succeeded and the empty list otherwise, with one entry
\* per displayed row on success; it never holds an earlier question's answer,
\* and a row that the state does not have resolves to a message.
C10_LastAnswer ==
    (Requested /\ pc = "idle") =>
        /\ full_response_state =
               IF outcome = "success" THEN structured_answer ELSE <<>>
        /\ outcome = "success" => Len(full_response_state) = Len(answer_box)
        /\ \A row \in 0..MaxAnswer :
               (full_response_state = <<>> \/ row >= Len(full_response_state)) =>
                   show_source_details_from_state(full_response_state,
                                                  <<row>>).kind
                       \in {"source_not_found", "index_error"}

====
